---- MODULE Spec2Model ----
(***************************************************************************)
(* fractulate (src/main.rs): load a triangle mesh, attach recursively      *)
(* placed half-size copies of it to randomly selected triangles and save   *)
(* the result.                                                             *)
(*                                                                         *)
(* Numbers.  The program computes in f32.  The model computes with         *)
(* integers and keeps to inputs on which every f32 operation of the        *)
(* program has an integer-valued (or, for matrices, dyadic) result:        *)
(*   - vertex coordinates are multiples of 24 below 2^24, so centroids     *)
(*     (/ 3.0) and up to three halvings (child_scale) are exact;           *)
(*   - the edge v1 - v0 and the cross product of every triangle are        *)
(*     parallel to a coordinate axis, so norm and normalize are exact;     *)
(*   - sums and differences of areas are rounded to the 24-bit             *)
(*     significand of f32 (F32), which matters from 2^24 upwards;          *)
(*   - 0/0 is NaN, and NaN propagates through every operation.             *)
(* A point is a triple of integers.  A Matrix4 is a 4x4 table whose        *)
(* entries are numerators over the denominator One.                        *)
(***************************************************************************)
EXTENDS Integers, Sequences, FiniteSets, TLC

VARIABLES entry, pc, base, depthArg, stream, rng, stack, ret, grown,
          grownProv, draws, stl, prev, runs

vars == <<entry, pc, base, depthArg, stream, rng, stack, ret, grown,
          grownProv, draws, stl, prev, runs>>

(***************************************************************************)
(* Bounds of the model.                                                    *)
(***************************************************************************)
\* a direct call of growths is explored for every depth argument 0..MaxDepth
\* (main_transform calls it with MainDepth)
MaxDepth == 1
\* the generator family: the streams start at the offsets 0..MaxOff of the
\* cycle of raw outputs and step through it by one of MaxInc odd increments
MaxOff == 3
MaxInc == 1
\* the draws of gen_range: LowSteps fractions of the range from 0 upwards
\* and the TopSteps f32 values just below its upper end
LowSteps == 4
TopSteps == 4

(***************************************************************************)
(* Program constants.                                                      *)
(***************************************************************************)
num_children == 5
\* child_scale = 0.5 is ChildScaleNum / ChildScaleDen
ChildScaleNum == 1
ChildScaleDen == 2
\* the seed main_transform passes to seed_from_u64
SeedValue == 0
\* the depth main_transform passes to growths
MainDepth == 2
\* the divisor of the centroid
CentroidDiv == 3

(***************************************************************************)
(* f32 arithmetic on integer values.                                       *)
(***************************************************************************)
NaN == -(2^30) - 1

IsNaN(x) == x = NaN

Abs(x) == IF x < 0 THEN -x ELSE x

\* the distance between neighbouring f32 values at magnitude a >= 0 (at
\* least 1: the model holds integer values only; a < 2^31)
Ulp(a) ==
    IF a < 2^24 THEN 1
    ELSE 2 ^ (CHOOSE e \in 1..7 : a \div 2^(23 + e) = 1)

\* a >= 0 rounded to the nearest multiple of u, ties to the even multiple
RoundTo(a, u) ==
    IF 2 * (a % u) > u \/ (2 * (a % u) = u /\ (a \div u) % 2 = 1)
    THEN (a \div u + 1) * u
    ELSE (a \div u) * u

\* round to nearest f32, ties to the even significand
F32(x) ==
    IF IsNaN(x) THEN NaN
    ELSE IF x < 0 THEN -RoundTo(-x, Ulp(-x))
    ELSE RoundTo(x, Ulp(x))

FAdd(x, y) == IF IsNaN(x) \/ IsNaN(y) THEN NaN ELSE F32(x + y)
FSub(x, y) == IF IsNaN(x) \/ IsNaN(y) THEN NaN ELSE F32(x - y)
FMul(x, y) == IF IsNaN(x) \/ IsNaN(y) THEN NaN ELSE F32(x * y)
\* x / y: 0/0 and x/NaN are NaN; the model's inputs keep the quotient exact
FDiv(x, y) ==
    IF IsNaN(x) \/ IsNaN(y) \/ y = 0 THEN NaN
    ELSE IF y < 0 THEN (-x) \div (-y) ELSE x \div y
\* a < b on f32: false when either side is NaN
FLess(x, y) == ~IsNaN(x) /\ ~IsNaN(y) /\ x < y

ISqrt(n) == CHOOSE k \in 0..n : k * k <= n /\ n < (k + 1) * (k + 1)

(***************************************************************************)
(* Vector3<f32>.                                                           *)
(***************************************************************************)
VSub(a, b) == <<FSub(a[1], b[1]), FSub(a[2], b[2]), FSub(a[3], b[3])>>
VAdd(a, b) == <<FAdd(a[1], b[1]), FAdd(a[2], b[2]), FAdd(a[3], b[3])>>
VDiv(a, d) == <<FDiv(a[1], d), FDiv(a[2], d), FDiv(a[3], d)>>

Cross(a, b) ==
    <<FSub(FMul(a[2], b[3]), FMul(a[3], b[2])),
      FSub(FMul(a[3], b[1]), FMul(a[1], b[3])),
      FSub(FMul(a[1], b[2]), FMul(a[2], b[1]))>>

\* sqrt(x*x + y*y + z*z).  With at most one non-zero component this is the
\* magnitude of that component (sqrt(fl(x*x)) = |x| in binary floating
\* point), computed without squaring it.
Norm(v) ==
    IF IsNaN(v[1]) \/ IsNaN(v[2]) \/ IsNaN(v[3]) THEN NaN
    ELSE IF Cardinality({k \in 1..3 : v[k] # 0}) <= 1
         THEN Abs(v[1]) + Abs(v[2]) + Abs(v[3])
         ELSE ISqrt(v[1] * v[1] + v[2] * v[2] + v[3] * v[3])

\* self / self.norm()
Normalize(v) == VDiv(v, Norm(v))

HasNaN(v) == IsNaN(v[1]) \/ IsNaN(v[2]) \/ IsNaN(v[3])

\* the weight select gives a triangle: |(t1 - t0) x (t2 - t0)|
Area(triangle) ==
    Norm(Cross(VSub(triangle[2], triangle[1]), VSub(triangle[3], triangle[1])))

get_normal(face) ==
    Normalize(Cross(VSub(face[2], face[1]), VSub(face[3], face[1])))

(***************************************************************************)
(* Matrix4<f32>: rows of numerators over One.                              *)
(***************************************************************************)
One == 2 ^ (MaxDepth + 1)

\* NaN-propagating sum and product of numerators
NAdd(x, y) == IF IsNaN(x) \/ IsNaN(y) THEN NaN ELSE x + y
NMul(x, y) == IF IsNaN(x) \/ IsNaN(y) THEN NaN ELSE x * y
\* the product of two numerators over One, as a numerator over One
QMul(x, y) == IF IsNaN(x) \/ IsNaN(y) THEN NaN ELSE (x * y) \div One

\* a * b: every entry is the full sum of four products (0 * NaN = NaN)
MEntry(a, b, i, j) ==
    NAdd(NAdd(QMul(a[i][1], b[1][j]), QMul(a[i][2], b[2][j])),
         NAdd(QMul(a[i][3], b[3][j]), QMul(a[i][4], b[4][j])))

MRow(a, b, i) == <<MEntry(a, b, i, 1), MEntry(a, b, i, 2),
                   MEntry(a, b, i, 3), MEntry(a, b, i, 4)>>

MMul(a, b) == <<MRow(a, b, 1), MRow(a, b, 2), MRow(a, b, 3), MRow(a, b, 4)>>

\* Matrix4::new(m11, m12, ..., m44) of f32 values
Matrix4Row(row) == <<NMul(row[1], One), NMul(row[2], One),
                     NMul(row[3], One), NMul(row[4], One)>>

Matrix4New(rows) == <<Matrix4Row(rows[1]), Matrix4Row(rows[2]),
                      Matrix4Row(rows[3]), Matrix4Row(rows[4])>>

new_translation(v) ==
    Matrix4New(<< <<1, 0, 0, v[1]>>, <<0, 1, 0, v[2]>>,
                  <<0, 0, 1, v[3]>>, <<0, 0, 0, 1>> >>)

\* Matrix4::new_scaling(num / den)
Diagonal(s) ==
    << <<s, 0, 0, 0>>, <<0, s, 0, 0>>, <<0, 0, s, 0>>, <<0, 0, 0, One>> >>

new_scaling(num, den) == Diagonal((num * One) \div den)

\* nalgebra's transform_point: (M3 * pt + translation) / n, where n is the
\* bottom row applied to (pt, 1); the division is skipped when n is zero
HomRow(m, pt, i) ==
    NAdd(NAdd(NMul(m[i][1], pt[1]), NMul(m[i][2], pt[2])),
         NAdd(NMul(m[i][3], pt[3]), m[i][4]))

DivideBy(v, n) ==
    IF n = 0 THEN VDiv(v, One) ELSE VDiv(v, n)

transform_point(m, pt) ==
    DivideBy(<<HomRow(m, pt, 1), HomRow(m, pt, 2), HomRow(m, pt, 3)>>,
             HomRow(m, pt, 4))

\* lines 133-136: the rotation with columns x_axis, y_axis, normal
Rotation(x_axis, y_axis, normal) ==
    Matrix4New(<< <<x_axis[1], y_axis[1], normal[1], 0>>,
                  <<x_axis[2], y_axis[2], normal[2], 0>>,
                  <<x_axis[3], y_axis[3], normal[3], 0>>,
                  <<0, 0, 0, 1>> >>)

\* line 132: y_axis = normal.cross(&x_axis)
Frame(normal, x_axis) == Rotation(x_axis, Cross(normal, x_axis), normal)

\* line 138: center = (v0 + v1 + v2) / 3.0
Center(v0, v1, v2) == VDiv(VAdd(VAdd(v0, v1), v2), CentroidDiv)

\* Create a transformation that would move a mesh so it sticks out from the
\* triangle: translation * rotation.
place_on_triangle(triangle) ==
    MMul(new_translation(Center(triangle[1], triangle[2], triangle[3])),
         Frame(get_normal(triangle), Normalize(VSub(triangle[2], triangle[1]))))

\* line 69: place_on_triangle(triangle) * Matrix4::new_scaling(child_scale)
Placement(triangle) ==
    MMul(place_on_triangle(triangle), new_scaling(ChildScaleNum, ChildScaleDen))

TransformTriangle(triangle, transformation) ==
    <<transform_point(transformation, triangle[1]),
      transform_point(transformation, triangle[2]),
      transform_point(transformation, triangle[3])>>

transform(triangles, transformation) ==
    [j \in 1..Len(triangles) |-> TransformTriangle(triangles[j], transformation)]

(***************************************************************************)
(* The random generator (rand_xoshiro, rand): a state that steps through   *)
(* a fixed cycle of raw outputs.  Which cycle the seed selects is not      *)
(* known to the model: stream is one member of a family, fixed for a       *)
(* behaviour.                                                              *)
(***************************************************************************)
RawMax == LowSteps + TopSteps

Incs == {2 * k - 1 : k \in 1..MaxInc}

Streams == [off : 0..MaxOff, inc : Incs]

\* the generator the program owns before main_transform seeds one
KeepRng(seed) == rng

\* Xoshiro256StarStar::seed_from_u64(seed)
seed_from_u64(seed) == [s |-> (stream.off + seed) % RawMax, inc |-> stream.inc]

NextRng(g) == [g EXCEPT !.s = (g.s + g.inc) % RawMax]

\* the value rng.gen_range(0.0..high) makes of the raw output: an f32 in
\* [0, high)
GenRangeValue(raw, high) ==
    IF raw < LowSteps THEN F32(raw * (high \div LowSteps))
    ELSE high - (raw - LowSteps + 1) * Ulp(high)

(***************************************************************************)
(* select: choose a random triangle, weighted by its area.                 *)
(***************************************************************************)
Areas(triangles) == [j \in 1..Len(triangles) |-> Area(triangles[j])]

\* areas.iter().sum::<f32>() of the first n areas
RECURSIVE SumF32(_, _)
SumF32(areas, n) == IF n = 0 THEN 0 ELSE FAdd(SumF32(areas, n - 1), areas[n])

\* the comparison of the walk, with <= for <
WalkHitLoose(area, a) == FLess(area, a) \/ area = a

\* line 97: if area < a
WalkHit(area, a) == FLess(area, a)

\* lines 96-104: the index of the triangle returned for the draw `area`,
\* walking from index i
RECURSIVE Walk(_, _, _)
Walk(areas, area, i) ==
    IF i > Len(areas) THEN Len(areas)
    ELSE IF WalkHit(area, areas[i]) THEN i
    ELSE Walk(areas, FSub(area, areas[i]), i + 1)

TotalArea(triangles) == SumF32(Areas(triangles), Len(triangles))

\* lines 95-104: the draw and the walk
Selected(g, triangles, r) ==
    [panic |-> FALSE,
     triangle |-> triangles[Walk(Areas(triangles), r, 1)],
     r |-> r,
     rng |-> NextRng(g)]

SelectDrawn(g, triangles) ==
    Selected(g, triangles, GenRangeValue(g.s, TotalArea(triangles)))

ZeroTriangle == << <<0, 0, 0>>, <<0, 0, 0>>, <<0, 0, 0>> >>

\* a select that answers a mesh it cannot sample from with a default
\* triangle instead of failing
selectOrDefault(g, triangles) ==
    IF triangles = <<>> \/ ~FLess(0, TotalArea(triangles))
    THEN [panic |-> FALSE, triangle |-> ZeroTriangle, r |-> 0, rng |-> g]
    ELSE SelectDrawn(g, triangles)

\* select(rng, triangles): panic, or the triangle with the draw and the
\* generator's next state.  Line 83: assert!(!triangles.is_empty());
\* line 95: gen_range panics on an empty range.
select(g, triangles) ==
    IF triangles = <<>> THEN [panic |-> TRUE]
    ELSE IF ~FLess(0, TotalArea(triangles)) THEN [panic |-> TRUE]
    ELSE SelectDrawn(g, triangles)

(***************************************************************************)
(* Input meshes (what load returns).                                       *)
(***************************************************************************)
\* the two halves of a square in the xy-plane
TriA == << <<0, 0, 0>>, <<24, 0, 0>>, <<24, 24, 0>> >>
TriB == << <<24, 24, 0>>, <<0, 24, 0>>, <<0, 0, 0>> >>
\* a wall in the yz-plane
TriW == << <<0, 0, 0>>, <<0, 24, 0>>, <<0, 0, 24>> >>
\* twice and three times the area of TriA
TriS2 == << <<0, 0, 0>>, <<24, 0, 0>>, <<0, 48, 0>> >>
TriS3 == << <<0, 0, 0>>, <<24, 0, 0>>, <<0, 72, 0>> >>
\* an area of 9 * 2^27, where neighbouring f32 values are 128 apart
TriBig == << <<0, 0, 0>>, <<24576, 0, 0>>, <<0, 49152, 0>> >>
\* three points on a line
TriDeg == << <<0, 0, 0>>, <<24, 0, 0>>, <<48, 0, 0>> >>

Meshes ==
    { <<>>,
      <<TriA>>,
      <<TriA, TriB>>,
      <<TriA, TriW, TriS2>>,
      <<TriA, TriDeg>>,
      <<TriDeg>>,
      <<TriA, TriBig, TriB>>,
      <<TriS3, TriBig, TriDeg>> }

Degenerate(triangle) == Area(triangle) = 0

(***************************************************************************)
(* growths: one frame per active call.                                     *)
(***************************************************************************)
None == -1

\* depth.checked_sub(1) that saturates at 0 instead of failing
saturating_sub1(depth) == IF depth >= 1 THEN depth - 1 ELSE 0

\* depth.checked_sub(1)
checked_sub1(depth) == IF depth >= 1 THEN depth - 1 ELSE None

\* 0..=num_children
LoopDoneInclusive(i) == i = num_children + 1

\* line 67: for _ in 0..num_children is over
LoopDone(i) == i = num_children

\* the recursive call made before the sample is drawn
LoopBodySwapped == <<"recurse", "select">>

\* lines 68-74: the order of the statements of the loop body that draw:
\* select (with the base copy, lines 68-70), then the recursive call
LoopBody == <<"select", "recurse">>

\* Vec::extend at the front
ExtendFront(v, xs) == xs \o v

\* v.extend(xs)
Extend(v, xs) == v \o xs

\* the recursive result appended as it is
ChildResultRaw(childRet, transformation) == childRet

\* lines 71-74: transform(growths(rng, base_model, next_depth), transformation)
ChildResult(childRet, transformation) == transform(childRet, transformation)

Identity == new_translation(<<0, 0, 0>>)

\* the frame of growths(rng, base_model, depth) after lines 58-65.  triangle
\* and transformation are not in scope before the first select: the frame
\* holds placeholders.  prov is history: for every triangle of ret the child
\* indices of the frames it passed through (outermost first) and the index
\* of its base triangle.
NewFrame(depth) ==
    [next_depth |-> checked_sub1(depth),
     done |-> checked_sub1(depth) = None,
     i |-> 0,
     step |-> 1,
     triangle |-> ZeroTriangle,
     transformation |-> Identity,
     ret |-> <<>>,
     prov |-> <<>>]

\* the frame after a statement of the loop body
Advance(f) ==
    IF f.step = Len(LoopBody)
    THEN [f EXCEPT !.i = @ + 1, !.step = 1]
    ELSE [f EXCEPT !.step = @ + 1]

Top == stack[Len(stack)]

SetTop(f) == [stack EXCEPT ![Len(stack)] = f]

\* the child indices of the active frames, outermost first
PathOf(st) == [k \in 1..Len(st) |-> st[k].i]

InBody(what) ==
    /\ pc = "growths"
    /\ ~Top.done
    /\ ~LoopDone(Top.i)
    /\ LoopBody[Top.step] = what

\* the base copy's history: child index and base triangle index
CopyProv(i) == [j \in 1..Len(base) |-> [path |-> <<i>>, t |-> j]]

\* lines 68-70 in the frame f: the sample o, the placement t, the
\* transformed copy of the base appended to ret
AfterSelect(f, o, t) ==
    Advance([f EXCEPT !.triangle = o.triangle,
                      !.transformation = t,
                      !.ret = Extend(@, transform(base, t)),
                      !.prov = Extend(@, CopyProv(f.i))])

\* lines 68-70: select, the placement, and the transformed copy of the base
Select ==
    /\ InBody("select")
    /\ \E o \in {select(rng, base)} :
          IF o.panic
          THEN /\ pc' = "panic"
               /\ UNCHANGED <<rng, stack, draws>>
          ELSE /\ pc' = pc
               /\ rng' = o.rng
               /\ draws' = Append(draws, [path |-> PathOf(stack),
                                          s |-> rng.s,
                                          r |-> o.r,
                                          triangle |-> o.triangle])
               /\ stack' = SetTop(AfterSelect(Top, o, Placement(o.triangle)))
    /\ UNCHANGED <<entry, base, depthArg, stream, ret, grown, grownProv, stl,
                   prev, runs>>

\* line 72: the call growths(rng, base_model, next_depth)
Recurse ==
    /\ InBody("recurse")
    /\ stack' = Append(stack, NewFrame(Top.next_depth))
    /\ UNCHANGED <<entry, pc, base, depthArg, stream, rng, ret, grown,
                   grownProv, draws, stl, prev, runs>>

\* line 67 / 77: the loop is over, the frame returns ret
LoopEnd ==
    /\ pc = "growths"
    /\ ~Top.done
    /\ LoopDone(Top.i)
    /\ stack' = SetTop([Top EXCEPT !.done = TRUE])
    /\ UNCHANGED <<entry, pc, base, depthArg, stream, rng, ret, grown,
                   grownProv, draws, stl, prev, runs>>

\* the history of a returned result in the caller's frame
ChildProv(i, prov) ==
    [j \in 1..Len(prov) |-> [path |-> <<i>> \o prov[j].path, t |-> prov[j].t]]

\* lines 71-74 in the caller's frame: the transformed result of the call
\* appended to ret
AfterReturn(parent, child) ==
    Advance([parent EXCEPT
                !.ret = Extend(@, ChildResult(child.ret, parent.transformation)),
                !.prov = Extend(@, ChildProv(parent.i, child.prov))])

\* lines 59 / 77 with 71-74: a call returns; the caller appends the
\* transformed result and goes on
Return ==
    /\ pc = "growths"
    /\ Top.done
    /\ IF Len(stack) > 1
       THEN /\ stack' = [SubSeq(stack, 1, Len(stack) - 1) EXCEPT
                            ![Len(stack) - 1] =
                                AfterReturn(stack[Len(stack) - 1], Top)]
            /\ UNCHANGED <<pc, grown, grownProv>>
       ELSE /\ stack' = <<>>
            /\ grown' = Top.ret
            /\ grownProv' = Top.prov
            /\ pc' = IF entry = "main" THEN "extend" ELSE "returned"
    /\ UNCHANGED <<entry, base, depthArg, stream, rng, ret, draws, stl, prev,
                   runs>>

(***************************************************************************)
(* main: main_transform, save.                                             *)
(***************************************************************************)
\* lines 47-49: seed the generator, clone the input, call growths
MainTransform ==
    /\ pc = "main"
    /\ rng' = seed_from_u64(SeedValue)
    /\ ret' = base
    /\ stack' = <<NewFrame(depthArg)>>
    /\ pc' = "growths"
    /\ UNCHANGED <<entry, base, depthArg, stream, grown, grownProv, draws,
                   stl, prev, runs>>

\* a direct call growths(rng, base, depth) with the caller's generator
CallGrowths ==
    /\ pc = "call"
    /\ stack' = <<NewFrame(depthArg)>>
    /\ pc' = "growths"
    /\ UNCHANGED <<entry, base, depthArg, stream, rng, ret, grown, grownProv,
                   draws, stl, prev, runs>>

\* the growths result put in front of the clone
MainExtendFront ==
    /\ pc = "extend"
    /\ ret' = grown \o ret
    /\ pc' = "save"
    /\ UNCHANGED <<entry, base, depthArg, stream, rng, stack, grown,
                   grownProv, draws, stl, prev, runs>>

\* line 49: ret.extend(<the value growths returned>)
MainExtend ==
    /\ pc = "extend"
    /\ ret' = ret \o grown
    /\ pc' = "save"
    /\ UNCHANGED <<entry, base, depthArg, stream, rng, stack, grown,
                   grownProv, draws, stl, prev, runs>>

\* lines 35-42: every triangle with its recomputed normal, in mesh order
StlOf(mesh) ==
    [j \in 1..Len(mesh) |-> [normal |-> get_normal(mesh[j]), vertices |-> mesh[j]]]

Save ==
    /\ pc = "save"
    /\ stl' = StlOf(ret)
    /\ pc' = "done"
    /\ UNCHANGED <<entry, base, depthArg, stream, rng, stack, ret, grown,
                   grownProv, draws, prev, runs>>

\* the program is run a second time on the same input; prev keeps what the
\* first run wrote
Rerun ==
    /\ pc = "done"
    /\ runs = 0
    /\ prev' = stl
    /\ runs' = runs + 1
    /\ pc' = "main"
    /\ stack' = <<>>
    /\ ret' = <<>>
    /\ grown' = <<>>
    /\ grownProv' = <<>>
    /\ draws' = <<>>
    /\ stl' = <<>>
    /\ UNCHANGED <<entry, base, depthArg, stream, rng>>

\* The state after load: the program is about to call main_transform
\* (entry "main"), or a caller is about to call growths directly with its
\* own generator and any depth up to MaxDepth (entry "growths").  rng is the
\* generator in memory at that point.
Init ==
    /\ entry \in {"main", "growths"}
    /\ base \in Meshes
    /\ stream \in Streams
    /\ depthArg \in (IF entry = "main" THEN {MainDepth} ELSE 0..MaxDepth)
    /\ pc = (IF entry = "main" THEN "main" ELSE "call")
    /\ rng = [s |-> stream.off, inc |-> stream.inc]
    /\ stack = <<>>
    /\ ret = <<>>
    /\ grown = <<>>
    /\ grownProv = <<>>
    /\ draws = <<>>
    /\ stl = <<>>
    /\ prev = <<>>
    /\ runs = 0

Next ==
    \/ MainTransform
    \/ CallGrowths
    \/ Select
    \/ Recurse
    \/ LoopEnd
    \/ Return
    \/ MainExtend
    \/ Save
    \/ Rerun

Spec == Init /\ [][Next]_vars

(***************************************************************************)
(* Properties.                                                             *)
(***************************************************************************)
\* growths has returned to its caller
Returned == pc \in {"returned", "extend", "save", "done"}

NonDegenerateBase ==
    /\ Len(base) >= 1
    /\ \A j \in 1..Len(base) : ~Degenerate(base[j])

\* n^1 + n^2 + ... + n^d
RECURSIVE GeomSum(_, _)
GeomSum(n, d) == IF d = 0 THEN 0 ELSE n ^ d + GeomSum(n, d - 1)

\* C1: on a base of B >= 1 non-degenerate triangles growths(rng, base, d)
\* does not fail and returns exactly B * (n^1 + ... + n^d) triangles, for
\* every stream of draws; from main_transform (n = 5, d = 2) that is 30 * B
C1_GrowthCount ==
    NonDegenerateBase =>
        /\ pc # "panic"
        /\ Returned =>
              /\ Len(grown) = Len(base) * GeomSum(num_children, depthArg)
              /\ entry = "main" => Len(grown) = 30 * Len(base)

C1_Witness ==
    /\ entry = "main"
    /\ pc = "extend"
    /\ NonDegenerateBase
    /\ Len(base) = 3
    /\ Len(grown) = 90

\* C2: growths called with depth 0 returns the empty sequence for every
\* base mesh, draws no sample and leaves the generator as it was
C2_DepthZero ==
    (entry = "growths" /\ depthArg = 0) =>
        /\ pc # "panic"
        /\ draws = <<>>
        /\ rng = [s |-> stream.off, inc |-> stream.inc]
        /\ Returned => grown = <<>>

C2_Witness ==
    /\ entry = "growths"
    /\ depthArg = 0
    /\ base = <<>>
    /\ pc = "returned"
    /\ grown = <<>>

\* C3: main_transform returns the input triangles, unmodified and in input
\* order, followed by exactly what growths returned
C3_BaseThenGrowths ==
    /\ (entry = "main" /\ pc \in {"growths", "extend"}) => ret = base
    /\ pc \in {"save", "done"} =>
          /\ Len(ret) = Len(base) + Len(grown)
          /\ SubSeq(ret, 1, Len(base)) = base
          /\ SubSeq(ret, Len(base) + 1, Len(ret)) = grown

C3_Witness ==
    /\ pc = "save"
    /\ Len(base) = 2
    /\ Len(grown) = 60
    /\ Len(ret) = 62

IsPrefix(p, q) == Len(p) < Len(q) /\ SubSeq(q, 1, Len(p)) = p

\* p comes before q in depth-first pre-order
PathBefore(p, q) ==
    \/ IsPrefix(p, q)
    \/ \E i \in 1..Len(p) :
          /\ i <= Len(q)
          /\ SubSeq(p, 1, i - 1) = SubSeq(q, 1, i - 1)
          /\ p[i] < q[i]

\* C4: the draws come in depth-first pre-order: every draw made inside the
\* recursive call of child i comes after the sample draw of child i, and
\* each draw is followed by a draw later in pre-order, so all draws of
\* child i's call precede the sample draw of child i + 1; each draw takes
\* the generator where the draw before it left it
C4_DrawsPreOrder ==
    /\ \A k \in 1..Len(draws) :
          Len(draws[k].path) > 1 =>
              \E m \in 1..(k - 1) :
                  draws[m].path = SubSeq(draws[k].path, 1, Len(draws[k].path) - 1)
    /\ \A k \in 1..(Len(draws) - 1) :
          /\ PathBefore(draws[k].path, draws[k + 1].path)
          /\ draws[k + 1].s = (draws[k].s + stream.inc) % RawMax

C4_Witness ==
    /\ Len(draws) >= 7
    /\ draws[1].path = <<0>>
    /\ draws[2].path = <<0, 0>>
    /\ draws[6].path = <<0, 4>>
    /\ draws[7].path = <<1>>

\* C5: a second run of the program on the same input, seeded again with
\* the same seed, writes the same mesh as the first, triangle for triangle
\* and vertex for vertex
C5_Deterministic == (pc = "done" /\ runs = 1) => stl = prev

C5_Witness ==
    /\ pc = "done"
    /\ runs = 1
    /\ Len(base) = 3
    /\ Len(stl) = 93
    /\ stl = prev

\* C6: select on an empty mesh fails and yields no triangle: growths with
\* depth >= 1 on an empty base never gets past its first select and never
\* returns; the only step it can take ends the run in the error outcome
C6_EmptyMeshFails ==
    (base = <<>> /\ depthArg >= 1) =>
        /\ ~Returned
        /\ draws = <<>>
        /\ pc = "growths" => stack = <<NewFrame(depthArg)>>
        /\ pc = "growths" => select(rng, base).panic

C6_Witness ==
    /\ base = <<>>
    /\ entry = "growths"
    /\ depthArg = 1
    /\ pc = "panic"
    /\ draws = <<>>

TriangleHasNaN(triangle) ==
    HasNaN(triangle[1]) \/ HasNaN(triangle[2]) \/ HasNaN(triangle[3])

SampledDegenerate == \E k \in 1..Len(draws) : Degenerate(draws[k].triangle)

\* C7: a degenerate triangle makes the run fail: no run in which growths
\* sampled a degenerate triangle returns, no run in which save computed the
\* normal of one completes, and no NaN vertex or normal is written
C7_DegenerateFails ==
    /\ pc \in {"returned", "done"} => ~SampledDegenerate
    /\ pc = "done" =>
          \A j \in 1..Len(stl) :
              /\ ~Degenerate(ret[j])
              /\ ~HasNaN(stl[j].normal)
              /\ ~TriangleHasNaN(stl[j].vertices)

Min(S) == CHOOSE m \in S : \A x \in S : m <= x

\* w_1 + ... + w_i
RECURSIVE ExactCum(_, _)
ExactCum(areas, i) == IF i = 0 THEN 0 ELSE ExactCum(areas, i - 1) + areas[i]

CumHits(areas, r) == {i \in 1..Len(areas) : ExactCum(areas, i) > r}

\* the smallest index whose cumulative weight exceeds r, else the last
CumIndex(areas, r) ==
    IF CumHits(areas, r) = {} THEN Len(areas) ELSE Min(CumHits(areas, r))

\* the draw less the first i weights, every subtraction rounded to f32
RECURSIVE Rem(_, _, _)
Rem(areas, r, i) ==
    IF i = 0 THEN r ELSE FSub(Rem(areas, r, i - 1), areas[i])

RemHits(areas, r) ==
    {i \in 1..Len(areas) : FLess(Rem(areas, r, i - 1), areas[i])}

RemIndex(areas, r) ==
    IF RemHits(areas, r) = {} THEN Len(areas) ELSE Min(RemHits(areas, r))

LastDraw == draws[Len(draws)]

\* C8 as stated: select returns the triangle at the smallest index whose
\* cumulative weight exceeds the draw, else the last triangle
C8_CumulativeWalk ==
    draws # <<>> =>
        LastDraw.triangle = base[CumIndex(Areas(base), LastDraw.r)]

\* C8 as amended: the draw lies in [0, total_weight); select returns the
\* triangle at the smallest index i at which the draw less w_0..w_(i-1),
\* each subtraction rounded to f32, is below w_i, and the last triangle if
\* there is none; a zero-weight triangle is returned only by that fallback
C8_RoundedWalk ==
    draws # <<>> =>
        /\ 0 <= LastDraw.r
        /\ FLess(LastDraw.r, TotalArea(base))
        /\ LastDraw.triangle = base[RemIndex(Areas(base), LastDraw.r)]
        /\ Degenerate(LastDraw.triangle) => RemHits(Areas(base), LastDraw.r) = {}

\* the fallback returns the zero-weight last triangle
C8_Witness ==
    /\ draws # <<>>
    /\ base = <<TriS3, TriBig, TriDeg>>
    /\ RemHits(Areas(base), LastDraw.r) = {}
    /\ LastDraw.triangle = TriDeg

\* the triangle sampled by the frame reached through the child indices path
SampleAt(path) ==
    draws[CHOOSE k \in 1..Len(draws) : draws[k].path = path].triangle

\* P_m: the placement of the level-m ancestor child
PlacementAt(path, m) == Placement(SampleAt(SubSeq(path, 1, m)))

\* P_1 * P_2 * ... * P_k
RECURSIVE Composed(_, _)
Composed(path, k) ==
    IF k = 1 THEN PlacementAt(path, 1)
    ELSE MMul(Composed(path, k - 1), PlacementAt(path, k))

ComposedOf(e) == TransformTriangle(base[e.t], Composed(e.path, Len(e.path)))

\* C9: every triangle growths returns is a base triangle under the product
\* P_1 * ... * P_k of the placements of its ancestor children, outermost
\* first, with 1 <= k <= depth (the result of a child's recursive call and
\* the child's own base copy share that child's placement); none is an
\* untransformed base triangle
C9_ComposedPlacements ==
    pc \in {"returned", "extend"} =>
        /\ Len(grownProv) = Len(grown)
        /\ \A j \in 1..Len(grown) :
              /\ Len(grownProv[j].path) \in 1..depthArg
              /\ grown[j] = ComposedOf(grownProv[j])

C9_Witness ==
    /\ pc = "extend"
    /\ \E j \in 1..Len(grown) :
          /\ Len(grownProv[j].path) = 2
          /\ SampleAt(SubSeq(grownProv[j].path, 1, 1)) = TriW
          /\ SampleAt(grownProv[j].path) = TriS2
          /\ grown[j] = ComposedOf(grownProv[j])
          /\ grown[j] # base[grownProv[j].t]

\* the triangle placed by P_k, then P_(k-1), ..., then P_1
RECURSIVE SeqPlaced(_, _, _)
SeqPlaced(triangle, path, k) ==
    IF k = 0 THEN triangle
    ELSE SeqPlaced(TransformTriangle(triangle, PlacementAt(path, k)), path, k - 1)

\* entry b directly follows entry a in the traversal: the next triangle of
\* the same base copy, or the first triangle of a copy later in pre-order
\* after the last triangle of a's copy
Follows(a, b) ==
    \/ a.path = b.path /\ b.t = a.t + 1
    \/ a.t = Len(base) /\ b.t = 1 /\ PathBefore(a.path, b.path)

\* C10: growths returns the triangles in traversal order: each child's
\* whole base copy in base order, then that child's recursive result, then
\* the next child; each triangle keeps its vertex order; save writes the
\* base mesh and then these triangles in this order
C10_TraversalOrder ==
    /\ Returned =>
          /\ Len(grownProv) = Len(grown)
          /\ grown # <<>> => grownProv[1] = [path |-> <<0>>, t |-> 1]
          /\ \A j \in 1..(Len(grown) - 1) : Follows(grownProv[j], grownProv[j + 1])
    /\ pc \in {"returned", "extend"} =>
          \A j \in 1..Len(grown) :
              \A v \in 1..3 :
                  grown[j][v] =
                      SeqPlaced(base[grownProv[j].t], grownProv[j].path,
                                Len(grownProv[j].path))[v]
    /\ pc = "done" =>
          /\ Len(stl) = Len(base) + Len(grown)
          /\ \A j \in 1..Len(base) : stl[j].vertices = base[j]
          /\ \A j \in 1..Len(grown) : stl[Len(base) + j].vertices = grown[j]

C10_Witness ==
    /\ pc = "done"
    /\ Len(base) = 3
    /\ Len(grown) = 90
    /\ grownProv[3] = [path |-> <<0>>, t |-> 3]
    /\ grownProv[4] = [path |-> <<0, 0>>, t |-> 1]
    /\ grownProv[18] = [path |-> <<0, 4>>, t |-> 3]
    /\ grownProv[19] = [path |-> <<1>>, t |-> 1]
    /\ stl[Len(base) + 19].vertices = grown[19]

====
